---- MODULE Spec2Model ----
(***************************************************************************)
(* Model of the ptnotes persistence layer (ptn/database.py) and of the     *)
(* handlers of ptn/webserver.py that drive it.                             *)
(*                                                                         *)
(* Text whose content matters (addresses, notes, the attacks.items field)  *)
(* is a sequence of one-character strings; SQL NULL is the marker Null.    *)
(* The file system under data/ is the function files: its domain is the    *)
(* set of store paths that exist, files[p] is the content of the sqlite    *)
(* file p.  The registry file data/projects.sqlite is the pair             *)
(* (projects, seq): the rows of table projects and its sqlite_sequence     *)
(* entry (the table is declared AUTOINCREMENT).                            *)
(* An sqlite3.Error inside execute_sql is an input of the action (a flag   *)
(* ok); a statement that is wrong by construction fails always.            *)
(***************************************************************************)
EXTENDS Integers, Sequences, FiniteSets, TLC

VARIABLES projects, seq, files, last

vars == <<projects, seq, files, last>>

(***************************************************************************)
(* Bounds                                                                  *)
(***************************************************************************)
NumTokens == 2
MaxProjects == 2
MaxHosts == 3

Tokens == 1..NumTokens
Names == {"alpha"}
Null == <<"<NULL>">>
None == [kind |-> "None"]

(***************************************************************************)
(* Text                                                                    *)
(***************************************************************************)
Code(c) ==
    CASE c = "%" -> 37
      [] c = "," -> 44
      [] c = "0" -> 48
      [] c = "1" -> 49
      [] c = "2" -> 50
      [] c = "A" -> 65
      [] c = "B" -> 66
      [] c = "_" -> 95
      [] c = "a" -> 97
      [] c = "b" -> 98
      [] OTHER -> 0

RECURSIVE TextLess(_, _)
TextLess(s, t) ==
    IF t = <<>> THEN FALSE
    ELSE IF s = <<>> THEN TRUE
    ELSE IF Code(Head(s)) # Code(Head(t)) THEN Code(Head(s)) < Code(Head(t))
    ELSE TextLess(Tail(s), Tail(t))

RECURSIVE OrderBy(_)
OrderBy(S) ==
    IF S = {} THEN <<>>
    ELSE LET m == CHOOSE x \in S : \A y \in S \ {x} : TextLess(x, y)
         IN <<m>> \o OrderBy(S \ {m})

(***************************************************************************)
(* Store files and the schema                                              *)
(***************************************************************************)
EmptyFile == [tables |-> {}, hosts |-> <<>>, items |-> <<>>, attacks |-> <<>>]

Database(fs, filename) ==
    IF filename \in DOMAIN fs THEN fs ELSE (filename :> EmptyFile) @@ fs

StoreInit(fs, filename, table, ok) ==
    LET c == Database(fs, filename)
    IN IF ok
       THEN [fs |-> [c EXCEPT ![filename].tables = @ \cup {table}], raised |-> FALSE]
       ELSE [fs |-> c, raised |-> TRUE]

ItemDatabase(fs, filename, ok) == StoreInit(fs, filename, "items", ok)
AttackDatabase(fs, filename, ok) == StoreInit(fs, filename, "attacks", ok)
HostDatabase(fs, filename, ok) == StoreInit(fs, filename, "hosts", ok)
ImportDatabase(fs, filename, ok) == StoreInit(fs, filename, "imports", ok)

\* failAt is the position (1..4) of the store whose CREATE TABLE fails, 0 for none
ScanDatabase(fs, filename, failAt) ==
    LET i == ItemDatabase(fs, filename, failAt # 1) IN
    IF i.raised THEN i ELSE
    LET a == AttackDatabase(i.fs, filename, failAt # 2) IN
    IF a.raised THEN a ELSE
    LET h == HostDatabase(a.fs, filename, failAt # 3) IN
    IF h.raised THEN h ELSE
    ImportDatabase(h.fs, filename, failAt # 4)

(***************************************************************************)
(* HostDatabase: the hosts table is the sequence of its rows in rowid      *)
(* order                                                                   *)
(***************************************************************************)
create_host(tbl, ip, ok) ==
    [tbl |-> IF ok THEN Append(tbl, [ip |-> ip, note |-> Null]) ELSE tbl,
     ret |-> ok]

\* "SELECT ip FROM hosts": every row, in rowid order
get_hosts_every_row(tbl, ok) ==
    IF ok THEN [i \in DOMAIN tbl |-> tbl[i].ip] ELSE <<>>

\* "SELECT DISTINCT ip FROM hosts ORDER BY ip"
get_hosts(tbl, ok) ==
    IF ok THEN OrderBy({tbl[i].ip : i \in DOMAIN tbl}) ELSE <<>>

\* k is the position of the row the cursor yields first (0 when none matches)
get_host_note(tbl, ip, ok, k) ==
    IF ~ok THEN [kind |-> "return", val |-> <<>>, exc |-> ""]
    ELSE IF k = 0 THEN [kind |-> "raise", val |-> <<>>, exc |-> "TypeError"]
    ELSE [kind |-> "return", val |-> tbl[k].note, exc |-> ""]

update_host_note(tbl, ip, note, ok) ==
    [tbl |-> IF ok
             THEN [i \in DOMAIN tbl |->
                      IF tbl[i].ip = ip THEN [tbl[i] EXCEPT !.note = note] ELSE tbl[i]]
             ELSE tbl,
     ret |-> ok]

(***************************************************************************)
(* ProjectDatabase                                                         *)
(***************************************************************************)
\* rowid of a table without AUTOINCREMENT: one more than the largest rowid in it
NextRowId_max(rows, s) ==
    IF rows = {} THEN 1
    ELSE (CHOOSE i \in {r.id : r \in rows} : \A r \in rows : r.id <= i) + 1

\* rowid of the next row of an AUTOINCREMENT table
NextRowId(rows, s) == s + 1

create_project_insert_first(rows, s, fs, name, db_name, failAt, insertOk) ==
    LET scan_db == ScanDatabase(fs, db_name, failAt)
        ins == IF insertOk
               THEN rows \cup {[id |-> NextRowId(rows, s), name |-> name,
                                note |-> Null, dbfile |-> db_name]}
               ELSE rows
    IN [projects |-> ins, seq |-> IF insertOk THEN NextRowId(rows, s) ELSE s,
        files |-> scan_db.fs, ret |-> insertOk /\ ~scan_db.raised]

create_project(rows, s, fs, name, db_name, failAt, insertOk) ==
    LET scan_db == ScanDatabase(fs, db_name, failAt) IN
    IF scan_db.raised
    THEN [projects |-> rows, seq |-> s, files |-> scan_db.fs, ret |-> FALSE]
    ELSE IF insertOk
    THEN [projects |-> rows \cup {[id |-> NextRowId(rows, s), name |-> name,
                                   note |-> Null, dbfile |-> db_name]},
          seq |-> NextRowId(rows, s), files |-> scan_db.fs, ret |-> TRUE]
    ELSE [projects |-> rows, seq |-> s, files |-> scan_db.fs, ret |-> FALSE]

get_project(rows, pid, ok) ==
    IF ~ok THEN [kind |-> "pair"]
    ELSE IF \E r \in rows : r.id = pid
    THEN LET r == CHOOSE r \in rows : r.id = pid
         IN [kind |-> "row", name |-> r.name, dbfile |-> r.dbfile, note |-> r.note]
    ELSE None

delete_file(fs, filename, rmOk) ==
    IF rmOk /\ filename \in DOMAIN fs
    THEN [p \in DOMAIN fs \ {filename} |-> fs[p]]
    ELSE fs

delete_project_keeps_row(rows, fs, pid, lookupOk, deleteOk, rmOk) ==
    LET got == get_project(rows, pid, lookupOk) IN
    IF got.kind = "None"
    THEN [projects |-> rows, files |-> fs, kind |-> "raise", exc |-> "TypeError"]
    ELSE IF got.kind = "pair"
    THEN [projects |-> rows, files |-> fs, kind |-> "raise", exc |-> "ValueError"]
    ELSE IF deleteOk
    THEN [projects |-> rows,
          files |-> delete_file(fs, got.dbfile, rmOk), kind |-> "return", exc |-> ""]
    ELSE [projects |-> rows, files |-> fs, kind |-> "raise", exc |-> "AttributeError"]

delete_project(rows, fs, pid, lookupOk, deleteOk, rmOk) ==
    LET got == get_project(rows, pid, lookupOk) IN
    IF got.kind = "None"
    THEN [projects |-> rows, files |-> fs, kind |-> "raise", exc |-> "TypeError"]
    ELSE IF got.kind = "pair"
    THEN [projects |-> rows, files |-> fs, kind |-> "raise", exc |-> "ValueError"]
    ELSE IF deleteOk
    THEN [projects |-> {r \in rows : r.id # pid},
          files |-> delete_file(fs, got.dbfile, rmOk), kind |-> "return", exc |-> ""]
    ELSE [projects |-> rows, files |-> fs, kind |-> "raise", exc |-> "AttributeError"]

(***************************************************************************)
(* Handlers.  A store of a project is reached as the web server reaches it: *)
(* the registry row gives the path, ScanDatabase(path) opens the dataset    *)
(* (creating file and schema when missing), then the store method runs.     *)
(***************************************************************************)
HostsOf(fs, filename) ==
    IF filename \in DOMAIN fs THEN fs[filename].hosts ELSE <<>>

CreateProject ==
    \E name \in Names, db_name \in Tokens, failAt \in 0..4, insertOk \in BOOLEAN :
        /\ seq < MaxProjects
        /\ LET r == create_project(projects, seq, files, name, db_name, failAt, insertOk)
           IN /\ projects' = r.projects
              /\ seq' = r.seq
              /\ files' = r.files
              /\ last' = [op |-> "create_project", db_name |-> db_name,
                          failAt |-> failAt, ret |-> r.ret]

DeleteProject ==
    \E pid \in 1..MaxProjects, lookupOk \in BOOLEAN, deleteOk \in BOOLEAN,
       rmOk \in BOOLEAN :
        LET r == delete_project(projects, files, pid, lookupOk, deleteOk, rmOk)
            got == get_project(projects, pid, lookupOk)
        IN /\ projects' = r.projects
           /\ files' = r.files
           /\ seq' = seq
           /\ last' = [op |-> "delete_project", pid |-> pid, lookup |-> got.kind,
                       kind |-> r.kind, exc |-> r.exc,
                       dbfile |-> IF got.kind = "row" THEN got.dbfile ELSE 0,
                       removed |-> r.kind = "return" /\ r.files # files]

GetProject ==
    \E pid \in 1..MaxProjects, ok \in BOOLEAN :
        /\ last' = [op |-> "get_project", pid |-> pid,
                    ret |-> get_project(projects, pid, ok)]
        /\ UNCHANGED <<projects, seq, files>>

CreateHost(p, ip, ok) ==
    LET sd == ScanDatabase(files, p.dbfile, 0)
        r == create_host(sd.fs[p.dbfile].hosts, ip, ok)
    IN /\ Len(sd.fs[p.dbfile].hosts) < MaxHosts
       /\ files' = [sd.fs EXCEPT ![p.dbfile].hosts = r.tbl]
       /\ last' = [op |-> "create_host", pid |-> p.id, ip |-> ip, ret |-> r.ret]
       /\ UNCHANGED <<projects, seq>>

GetHosts(p, ok) ==
    LET sd == ScanDatabase(files, p.dbfile, 0)
    IN /\ files' = sd.fs
       /\ last' = [op |-> "get_hosts", pid |-> p.id, ok |-> ok,
                   ret |-> get_hosts(sd.fs[p.dbfile].hosts, ok)]
       /\ UNCHANGED <<projects, seq>>

(***************************************************************************)
(* The registry: projects are created and deleted, hosts are written into  *)
(* and listed from the datasets of the live projects.                      *)
(***************************************************************************)
RegistryIPs == {<<"1">>}

Init ==
    /\ projects = {}
    /\ seq = 0
    /\ files = <<>>
    /\ last = [op |-> "init"]

RegistryCreateHost ==
    \E p \in projects, ip \in RegistryIPs :
        /\ Len(HostsOf(files, p.dbfile)) < 1
        /\ CreateHost(p, ip, TRUE)

RegistryGetHosts ==
    \E p \in projects : GetHosts(p, TRUE)

Next ==
    \/ CreateProject
    \/ DeleteProject
    \/ GetProject
    \/ RegistryCreateHost
    \/ RegistryGetHosts

Spec == Init /\ [][Next]_vars

(***************************************************************************)
(* Registry properties                                                     *)
(***************************************************************************)
DistinctStorePaths ==
    \A p \in projects, q \in projects : p.id # q.id => p.dbfile # q.dbfile

\* C1: any two live projects have distinct store paths, and writing a Host
\* into the dataset of project A leaves the host listing of every other live
\* project B as it was.
C1_ProjectIsolation ==
    [][/\ DistinctStorePaths'
       /\ (last'.op = "create_host" /\ last'.ret)
            => \A q \in projects :
                 q.id # last'.pid
                   => get_hosts(HostsOf(files', q.dbfile), TRUE)
                        = get_hosts(HostsOf(files, q.dbfile), TRUE)]_vars

\* C2: once delete(id) has returned with the row delete and the file delete
\* both done, the registry has no row for id, the backing file is gone and
\* get(id) returns none.
C2_DeletionSemantics ==
    (last.op = "delete_project" /\ last.kind = "return" /\ last.removed)
        => /\ \A r \in projects : r.id # last.pid
           /\ last.dbfile \notin DOMAIN files
           /\ get_project(projects, last.pid, TRUE) = None

C2_Witness ==
    /\ last.op = "delete_project"
    /\ last.kind = "return"
    /\ last.removed
    /\ projects # {}

\* C3: delete(id) whose row lookup fails (no row, or the statement fails) ends
\* without raising, deletes no file and leaves the registry rows unchanged.
C3_DeleteLookupFails ==
    [][(last'.op = "delete_project" /\ last'.lookup # "row")
          => /\ last'.kind = "return"
             /\ files' = files
             /\ projects' = projects]_vars

\* C4: when one of the four table creations fails, create returns false and
\* the set of registry rows is unchanged.
C4_SchemaFailure ==
    [][(last'.op = "create_project" /\ last'.failAt # 0)
          => /\ last'.ret = FALSE
             /\ projects' = projects]_vars

C4_Witness ==
    /\ last.op = "create_project"
    /\ last.failAt = 3
    /\ last.ret = FALSE
    /\ projects # {}
    /\ last.db_name \in DOMAIN files
    /\ "hosts" \notin files[last.db_name].tables

Status(rows, s, id) ==
    IF \E r \in rows : r.id = id THEN "active"
    ELSE IF id <= s THEN "deleted"
    ELSE "non-existent"

\* C5: a project id only moves non-existent -> active (by create) and
\* active -> deleted (by delete); a deleted id is never active again.
C5_Lifecycle ==
    [][\A id \in 1..(MaxProjects + 1) :
          LET a == Status(projects, seq, id)
              b == Status(projects', seq', id)
          IN \/ a = b
             \/ a = "non-existent" /\ b = "active" /\ last'.op = "create_project"
             \/ a = "active" /\ b = "deleted" /\ last'.op = "delete_project"]_vars

C5_Witness ==
    /\ last.op = "create_project"
    /\ last.ret
    /\ \E id \in 1..MaxProjects :
          /\ Status(projects, seq, id) = "deleted"
          /\ \E r \in projects : r.id > id

\* C11: whatever creates and deletes have run, with the row insert, the row
\* delete and the file delete each free to fail, every row of the registry
\* names a store file that exists; a store file without a row is the only
\* inconsistency.
C11_RegistryFileConsistency ==
    \A r \in projects : r.dbfile \in DOMAIN files

(***************************************************************************)
(* The Host Store of one project's dataset                                 *)
(***************************************************************************)
IPs == {<<"1">>, <<"1", "0">>, <<"2">>}
HostNotes == {<<"a">>}

FullSchema == {"items", "attacks", "hosts", "imports"}

InitStore ==
    /\ projects = {[id |-> 1, name |-> "alpha", note |-> Null, dbfile |-> 1]}
    /\ seq = 1
    /\ files = (1 :> [EmptyFile EXCEPT !.tables = FullSchema])
    /\ last = [op |-> "init"]

Matching(tbl, ip) == {i \in DOMAIN tbl : tbl[i].ip = ip}

GetHostNote(p, ip, ok) ==
    LET sd == ScanDatabase(files, p.dbfile, 0)
        tbl == sd.fs[p.dbfile].hosts
    IN \E k \in (IF Matching(tbl, ip) = {} THEN {0} ELSE Matching(tbl, ip)) :
         LET r == get_host_note(tbl, ip, ok, k)
         IN /\ files' = sd.fs
            /\ last' = [op |-> "get_host_note", pid |-> p.id, ip |-> ip, ok |-> ok,
                        kind |-> r.kind, val |-> r.val, exc |-> r.exc]
            /\ UNCHANGED <<projects, seq>>

UpdateHostNote(p, ip, note, ok) ==
    LET sd == ScanDatabase(files, p.dbfile, 0)
        r == update_host_note(sd.fs[p.dbfile].hosts, ip, note, ok)
    IN /\ files' = [sd.fs EXCEPT ![p.dbfile].hosts = r.tbl]
       /\ last' = [op |-> "update_host_note", pid |-> p.id, ip |-> ip, ret |-> r.ret]
       /\ UNCHANGED <<projects, seq>>

HostCreate ==
    \E p \in projects, ip \in IPs, ok \in BOOLEAN : CreateHost(p, ip, ok)

HostList ==
    \E p \in projects, ok \in BOOLEAN : GetHosts(p, ok)

HostGetNote ==
    \E p \in projects, ip \in IPs, ok \in BOOLEAN : GetHostNote(p, ip, ok)

HostUpdateNote ==
    \E p \in projects, ip \in IPs, note \in HostNotes, ok \in BOOLEAN :
        UpdateHostNote(p, ip, note, ok)

NextHost ==
    \/ HostCreate
    \/ HostList
    \/ HostGetNote
    \/ HostUpdateNote

SpecHost == InitStore /\ [][NextHost]_vars

(***************************************************************************)
(* Host Store properties                                                   *)
(***************************************************************************)
CurrentHosts == HostsOf(files, 1)

\* C6: get_note(ip) for an address with no host row returns the empty string
\* and does not raise, whatever the hosts table holds.
C6_GetNoteAbsent ==
    (last.op = "get_host_note" /\ Matching(CurrentHosts, last.ip) = {})
        => (last.kind = "return" /\ last.val = <<>>)

Occurrences(sq, x) == Cardinality({i \in DOMAIN sq : sq[i] = x})

Ascending(sq) ==
    \A i \in DOMAIN sq, j \in DOMAIN sq : i < j => ~TextLess(sq[j], sq[i])

\* C7 as stated: list_all() is ascending by address and holds one entry for
\* every create(ip) that succeeded, k entries for an address created k times.
C7_NotDeduplicated ==
    (last.op = "get_hosts" /\ last.ok)
        => /\ Ascending(last.ret)
           /\ \A ip \in IPs :
                Occurrences(last.ret, ip) = Cardinality(Matching(CurrentHosts, ip))

\* C7 amended: a list_all() whose query succeeds is strictly ascending by
\* address and holds every address of the hosts table exactly once, however
\* many rows the address has.
C7_DistinctAscending ==
    (last.op = "get_hosts" /\ last.ok)
        => /\ \A i \in DOMAIN last.ret, j \in DOMAIN last.ret :
                i < j => TextLess(last.ret[i], last.ret[j])
           /\ \A ip \in IPs :
                Occurrences(last.ret, ip)
                    = (IF Matching(CurrentHosts, ip) = {} THEN 0 ELSE 1)

C7_Witness ==
    /\ last.op = "get_hosts"
    /\ last.ok
    /\ Len(last.ret) >= 2
    /\ \E ip \in IPs : Cardinality(Matching(CurrentHosts, ip)) >= 2

(***************************************************************************)
(* AttackDatabase: the attacks table is the sequence of its rows in rowid  *)
(* order, the id of a row is its position                                  *)
(***************************************************************************)
MaxAttacks == 1
MaxRefs == 2

\* sep.join(items)
RECURSIVE Join(_, _)
Join(items, sep) ==
    IF items = <<>> THEN <<>>
    ELSE IF Len(items) = 1 THEN items[1]
    ELSE items[1] \o sep \o Join(Tail(items), sep)

\* text.split(c) for a one-character separator c
RECURSIVE Split(_, _)
Split(text, c) ==
    IF \A i \in DOMAIN text : text[i] # c THEN <<text>>
    ELSE LET k == CHOOSE i \in DOMAIN text :
                     text[i] = c /\ \A j \in 1..(i - 1) : text[j] # c
         IN <<SubSeq(text, 1, k - 1)>> \o Split(SubSeq(text, k + 1, Len(text)), c)

create_attack(tbl, name, description, items, ok) ==
    [tbl |-> IF ok
             THEN Append(tbl, [name |-> name, description |-> description,
                               items |-> Join(items, <<",">>), note |-> <<>>])
             ELSE tbl,
     ret |-> ok]

update_attack_hosts(tbl, aid, items, ok) ==
    [tbl |-> IF ok /\ aid \in DOMAIN tbl
             THEN [tbl EXCEPT ![aid].items = Join(items, <<",">>)]
             ELSE tbl,
     ret |-> ok]

get_attack(tbl, aid, ok) ==
    IF ok /\ aid \in DOMAIN tbl
    THEN [kind |-> "row", id |-> aid, name |-> tbl[aid].name,
          description |-> tbl[aid].description, items |-> tbl[aid].items,
          note |-> tbl[aid].note]
    ELSE None

\* the list of hosts the attack view shows: the stored field split on ","
attack_hosts(attack) == Split(attack.items, ",")

Refs == {<<>>, <<"1">>, <<"2">>, <<"1", ",", "2">>}
RefLists == UNION {[1..n -> Refs] : n \in 0..MaxRefs}

AttacksOf(fs, filename) ==
    IF filename \in DOMAIN fs THEN fs[filename].attacks ELSE <<>>

CreateAttack(p, items, ok) ==
    LET sd == ScanDatabase(files, p.dbfile, 0)
        r == create_attack(sd.fs[p.dbfile].attacks, "smb", "relay", items, ok)
    IN /\ Len(sd.fs[p.dbfile].attacks) < MaxAttacks
       /\ files' = [sd.fs EXCEPT ![p.dbfile].attacks = r.tbl]
       /\ last' = [op |-> "create_attack", pid |-> p.id, aid |-> Len(r.tbl),
                   items |-> items, ret |-> r.ret]
       /\ UNCHANGED <<projects, seq>>

UpdateAttackHosts(p, aid, items, ok) ==
    LET sd == ScanDatabase(files, p.dbfile, 0)
        r == update_attack_hosts(sd.fs[p.dbfile].attacks, aid, items, ok)
    IN /\ files' = [sd.fs EXCEPT ![p.dbfile].attacks = r.tbl]
       /\ last' = [op |-> "update_attack_hosts", pid |-> p.id, aid |-> aid,
                   items |-> items, ret |-> r.ret]
       /\ UNCHANGED <<projects, seq>>

GetAttack(p, aid, ok) ==
    LET sd == ScanDatabase(files, p.dbfile, 0)
        attack == get_attack(sd.fs[p.dbfile].attacks, aid, ok)
    IN /\ files' = sd.fs
       /\ last' = IF attack.kind = "row"
                  THEN [op |-> "get_attack", pid |-> p.id, aid |-> aid,
                        kind |-> "return", hosts |-> attack_hosts(attack)]
                  ELSE [op |-> "get_attack", pid |-> p.id, aid |-> aid,
                        kind |-> "raise", hosts |-> <<>>]
       /\ UNCHANGED <<projects, seq>>

AttackCreate ==
    \E p \in projects, items \in RefLists, ok \in BOOLEAN : CreateAttack(p, items, ok)

AttackUpdateHosts ==
    \E p \in projects, aid \in 1..(MaxAttacks + 1), items \in RefLists,
       ok \in BOOLEAN : UpdateAttackHosts(p, aid, items, ok)

AttackGet ==
    \E p \in projects, aid \in 1..(MaxAttacks + 1), ok \in BOOLEAN :
        GetAttack(p, aid, ok)

NextAttack ==
    \/ AttackCreate
    \/ AttackUpdateHosts
    \/ AttackGet

SpecAttack == InitStore /\ [][NextAttack]_vars

(***************************************************************************)
(* Attack Store properties                                                 *)
(***************************************************************************)
CurrentAttacks == AttacksOf(files, 1)

DelimiterFree(items) ==
    \A i \in DOMAIN items : \A j \in DOMAIN items[i] : items[i][j] # ","

Stored(aid) == get_attack(CurrentAttacks, aid, TRUE)

\* C8: after an attack is created with, or its references replaced by, a list
\* of references none of which holds a comma, reading the attack back and
\* splitting its items field on the comma gives that same list.
C8_ItemRoundTrip ==
    (/\ last.op \in {"create_attack", "update_attack_hosts"}
     /\ last.ret
     /\ last.aid \in DOMAIN CurrentAttacks
     /\ DelimiterFree(last.items))
        => attack_hosts(Stored(last.aid)) = last.items

\* the same for the lists that are not empty
RoundTripNonEmpty ==
    (/\ last.op \in {"create_attack", "update_attack_hosts"}
     /\ last.ret
     /\ last.aid \in DOMAIN CurrentAttacks
     /\ DelimiterFree(last.items)
     /\ last.items # <<>>)
        => attack_hosts(Stored(last.aid)) = last.items

(***************************************************************************)
(* Input validation (module validate), as create_item uses it              *)
(***************************************************************************)
MaxPort == 65535
WellFormedIPs == {"10.0.0.1", "10.0.0.2"}

valid_ip(ip) == ip \in WellFormedIPs
valid_port(port) == port \in 0..MaxPort
valid_protocol(protocol) == protocol \in {"tcp", "udp", "other"}
valid_hash(hash) == hash # ""

(***************************************************************************)
(* ItemDatabase: the items table is the sequence of its rows in rowid      *)
(* order, the id of a row is its position                                  *)
(***************************************************************************)
MaxItems == 2
MaxKeywords == 2

create_item(tbl, ip, port, protocol, note, hash, ok) ==
    IF ~(valid_ip(ip) /\ valid_port(port) /\ valid_protocol(protocol) /\ valid_hash(hash))
    THEN [tbl |-> tbl, ret |-> FALSE]
    ELSE [tbl |-> IF ok
                  THEN Append(tbl, [ip |-> ip, port |-> port, protocol |-> protocol,
                                    note |-> note, hash |-> hash])
                  ELSE tbl,
          ret |-> ok]

\* the natural numbers of S in ascending order: ORDER BY port ASC of a set
\* of ports, and the order in which a table scan yields a set of rowids
RECURSIVE SortAsc(_)
SortAsc(S) ==
    IF S = {} THEN <<>>
    ELSE LET m == CHOOSE x \in S : \A y \in S : x <= y
         IN <<m>> \o SortAsc(S \ {m})

\* SELECT DISTINCT of a column: the values in the order the scan meets them
RECURSIVE Distinct(_)
Distinct(sq) ==
    IF sq = <<>> THEN <<>>
    ELSE LET front == Distinct(SubSeq(sq, 1, Len(sq) - 1))
             x == sq[Len(sq)]
         IN IF \E i \in DOMAIN front : front[i] = x THEN front ELSE Append(front, x)

DistinctPorts(tbl, protocol) ==
    SortAsc({tbl[i].port : i \in {j \in DOMAIN tbl :
                    tbl[j].port # 0 /\ tbl[j].protocol = protocol}})

\* the port lists without "port != 0" in their WHERE clause
get_summary_port0(tbl, oks) ==
    LET endpoints == SortAsc({i \in DOMAIN tbl : tbl[i].port # 0})
        ports(protocol) ==
            SortAsc({tbl[i].port : i \in {j \in DOMAIN tbl : tbl[j].protocol = protocol}})
    IN [hosts |-> IF oks[1]
                  THEN [k \in DOMAIN endpoints |->
                          [ip |-> tbl[endpoints[k]].ip, port |-> tbl[endpoints[k]].port,
                           protocol |-> tbl[endpoints[k]].protocol]]
                  ELSE <<>>,
        ips |-> IF oks[2] THEN Distinct([i \in DOMAIN tbl |-> tbl[i].ip]) ELSE <<>>,
        tcp |-> IF oks[3] THEN ports("tcp") ELSE <<>>,
        udp |-> IF oks[4] THEN ports("udp") ELSE <<>>]

\* oks[k] tells whether the k-th of the four SELECT statements succeeds
get_summary(tbl, oks) ==
    LET endpoints == SortAsc({i \in DOMAIN tbl : tbl[i].port # 0})
    IN [hosts |-> IF oks[1]
                  THEN [k \in DOMAIN endpoints |->
                          [ip |-> tbl[endpoints[k]].ip, port |-> tbl[endpoints[k]].port,
                           protocol |-> tbl[endpoints[k]].protocol]]
                  ELSE <<>>,
        ips |-> IF oks[2] THEN Distinct([i \in DOMAIN tbl |-> tbl[i].ip]) ELSE <<>>,
        tcp |-> IF oks[3] THEN DistinctPorts(tbl, "tcp") ELSE <<>>,
        udp |-> IF oks[4] THEN DistinctPorts(tbl, "udp") ELSE <<>>]

Lower(c) ==
    CASE c = "A" -> "a"
      [] c = "B" -> "b"
      [] OTHER -> c

\* text LIKE pattern: % is any run of characters, _ is any one character, a
\* letter matches itself in either case
RECURSIVE Like(_, _)
Like(text, pattern) ==
    IF pattern = <<>> THEN text = <<>>
    ELSE IF Head(pattern) = "%"
    THEN Like(text, Tail(pattern)) \/ (text # <<>> /\ Like(Tail(text), pattern))
    ELSE IF text = <<>> THEN FALSE
    ELSE IF Head(pattern) = "_" \/ Lower(Head(pattern)) = Lower(Head(text))
    THEN Like(Tail(text), Tail(pattern))
    ELSE FALSE

NoteLike(note, kw) == note # Null /\ Like(note, <<"%">> \o kw \o <<"%">>)

\* keywords is [none |-> TRUE] for None, [none |-> FALSE, list |-> <<kw, ...>>]
\* for a list; with no keyword the statement ends in "WHERE " and is refused
get_items_by_keywords(tbl, keywords, ok) ==
    IF keywords.none THEN <<>>
    ELSE IF keywords.list = <<>> \/ ~ok THEN <<>>
    ELSE LET hit == SortAsc({i \in DOMAIN tbl :
                              \E k \in DOMAIN keywords.list :
                                  NoteLike(tbl[i].note, keywords.list[k])})
         IN [k \in DOMAIN hit |->
               [id |-> hit[k], ip |-> tbl[hit[k]].ip, port |-> tbl[hit[k]].port]]

ItemsOf(fs, filename) ==
    IF filename \in DOMAIN fs THEN fs[filename].items ELSE <<>>

CreateItem(p, ip, port, protocol, note, hash, ok) ==
    LET sd == ScanDatabase(files, p.dbfile, 0)
        r == create_item(sd.fs[p.dbfile].items, ip, port, protocol, note, hash, ok)
    IN /\ Len(sd.fs[p.dbfile].items) < MaxItems
       /\ files' = [sd.fs EXCEPT ![p.dbfile].items = r.tbl]
       /\ last' = [op |-> "create_item", pid |-> p.id, ret |-> r.ret]
       /\ UNCHANGED <<projects, seq>>

GetSummary(p, oks) ==
    LET sd == ScanDatabase(files, p.dbfile, 0)
    IN /\ files' = sd.fs
       /\ last' = [op |-> "get_summary", pid |-> p.id, oks |-> oks,
                   ret |-> get_summary(sd.fs[p.dbfile].items, oks)]
       /\ UNCHANGED <<projects, seq>>

GetItemsByKeywords(p, keywords, ok) ==
    LET sd == ScanDatabase(files, p.dbfile, 0)
    IN /\ files' = sd.fs
       /\ last' = [op |-> "get_items_by_keywords", pid |-> p.id,
                   keywords |-> keywords, ok |-> ok,
                   ret |-> get_items_by_keywords(sd.fs[p.dbfile].items, keywords, ok)]
       /\ UNCHANGED <<projects, seq>>

(***************************************************************************)
(* The Item Store under summaries: items differ in address, port, protocol *)
(***************************************************************************)
SummaryIPs == WellFormedIPs \cup {"10.0.0.999"}
SummaryPorts == {0, 53, 80, MaxPort + 1}
SummaryProtocols == {"tcp", "udp", "icmp"}
Hashes == {"d41d8c", ""}

SummaryCreateItem ==
    \E p \in projects, ip \in SummaryIPs, port \in SummaryPorts,
       protocol \in SummaryProtocols, hash \in Hashes, ok \in BOOLEAN :
        CreateItem(p, ip, port, protocol, <<"a">>, hash, ok)

SummaryGet ==
    \E p \in projects, oks \in [1..4 -> BOOLEAN] : GetSummary(p, oks)

NextSummary ==
    \/ SummaryCreateItem
    \/ SummaryGet

SpecSummary == InitStore /\ [][NextSummary]_vars

(***************************************************************************)
(* The Item Store under keyword search: items differ in their note         *)
(***************************************************************************)
ItemNotes == {Null, <<"a", "b">>, <<"b">>}
Keywords == {<<"a">>, <<"b", "a">>, <<"_">>}
KeywordLists ==
    {[none |-> TRUE]}
        \cup {[none |-> FALSE, list |-> l] :
                l \in UNION {[1..n -> Keywords] : n \in 0..MaxKeywords}}

SearchCreateItem ==
    \E p \in projects, note \in ItemNotes, hash \in Hashes, ok \in BOOLEAN :
        CreateItem(p, "10.0.0.1", 80, "tcp", note, hash, ok)

SearchGet ==
    \E p \in projects, keywords \in KeywordLists, ok \in BOOLEAN :
        GetItemsByKeywords(p, keywords, ok)

NextSearch ==
    \/ SearchCreateItem
    \/ SearchGet

SpecSearch == InitStore /\ [][NextSearch]_vars

(***************************************************************************)
(* Item Store properties                                                   *)
(***************************************************************************)
CurrentItems == ItemsOf(files, 1)

Range(sq) == {sq[i] : i \in DOMAIN sq}

Contains(text, kw) ==
    /\ text # Null
    /\ \E i \in 0..(Len(text) - Len(kw)) : SubSeq(text, i + 1, i + Len(kw)) = kw

\* C9: search_by_keywords returns exactly the (id, ip, port) of the items
\* whose note contains one of the keywords as a substring, and the empty list
\* when keywords is null or empty.
C9_KeywordSearch ==
    (last.op = "get_items_by_keywords")
        => IF last.keywords.none THEN last.ret = <<>>
           ELSE IF last.keywords.list = <<>> THEN last.ret = <<>>
           ELSE last.ok
                  => /\ Len(last.ret) = Cardinality(Range(last.ret))
                     /\ Range(last.ret)
                          = {[id |-> i, ip |-> CurrentItems[i].ip,
                              port |-> CurrentItems[i].port] :
                               i \in {j \in DOMAIN CurrentItems :
                                        \E kw \in Range(last.keywords.list) :
                                            Contains(CurrentItems[j].note, kw)}}

Endpoint(row) == [ip |-> row.ip, port |-> row.port, protocol |-> row.protocol]

PortsOf(tbl, protocol) ==
    {n \in SummaryPorts :
        \E i \in DOMAIN tbl : tbl[i].port = n /\ n # 0 /\ tbl[i].protocol = protocol}

Increasing(sq) == \A i \in DOMAIN sq, j \in DOMAIN sq : i < j => sq[i] < sq[j]

\* C10: in a summary whose four queries succeed, distinct_ips is the set of
\* all item addresses (those with only port-0 rows included), tcp_ports and
\* udp_ports are the ascending duplicate-free lists of the non-zero ports of
\* the tcp and udp items, and all_endpoints lists exactly the items with
\* port != 0.
C10_SummaryCorrect ==
    (last.op = "get_summary" /\ \A k \in 1..4 : last.oks[k])
        => /\ Range(last.ret.ips) = {CurrentItems[i].ip : i \in DOMAIN CurrentItems}
           /\ Len(last.ret.ips) = Cardinality(Range(last.ret.ips))
           /\ Increasing(last.ret.tcp)
           /\ Range(last.ret.tcp) = PortsOf(CurrentItems, "tcp")
           /\ Increasing(last.ret.udp)
           /\ Range(last.ret.udp) = PortsOf(CurrentItems, "udp")
           /\ \A e \in Range(last.ret.hosts) \cup Range([i \in DOMAIN CurrentItems |->
                                                         Endpoint(CurrentItems[i])]) :
                Occurrences(last.ret.hosts, e)
                    = Cardinality({i \in DOMAIN CurrentItems :
                                     Endpoint(CurrentItems[i]) = e /\ e.port # 0})

C10_Witness ==
    /\ last.op = "get_summary"
    /\ \A k \in 1..4 : last.oks[k]
    /\ last.ret.tcp # <<>>
    /\ \E i \in DOMAIN CurrentItems :
          /\ CurrentItems[i].port = 0
          /\ CurrentItems[i].protocol = "tcp"
          /\ \A j \in DOMAIN CurrentItems :
                CurrentItems[j].ip = CurrentItems[i].ip => CurrentItems[j].port = 0

====
